---- MODULE Spec2Model ----
(***************************************************************************)
(* Jarvis voice agent: the VoiceAgent component (speech capture and        *)
(* conversation controller, src/unnamed/part_001 lines 1-360) and the      *)
(* /api/assistant route (heuristic generator and remote model client,      *)
(* src/unnamed/part_001 lines 423-613).                                    *)
(*                                                                         *)
(* Text is a sequence of atoms.  What a user types or says is a sequence   *)
(* of one-character atoms, so trimming, case folding and substring tests   *)
(* are computed character by character.  The fixed template lines of the   *)
(* program are one atom each; none of them starts or ends with white space *)
(* and none starts with a lower-case letter.  Characters outside ASCII in  *)
(* the templates are written as a bracketed ASCII name.                    *)
(***************************************************************************)
EXTENDS Integers, Sequences, FiniteSets, TLC

\* ------------------------------------------------------------------ bounds
\* accepted submissions explored in one behaviour
MaxSubmits == 2

\* words in one message given to the heuristic generator
MaxWords == 2

\* accepted submissions in the specification of the long transcript
MaxTranscriptSubmits == 5

\* ------------------------------------------------------------ text helpers
LowerLetters ==
  <<"a","b","c","d","e","f","g","h","i","j","k","l","m",
    "n","o","p","q","r","s","t","u","v","w","x","y","z">>
UpperLetters ==
  <<"A","B","C","D","E","F","G","H","I","J","K","L","M",
    "N","O","P","Q","R","S","T","U","V","W","X","Y","Z">>

\* String.prototype.toUpperCase and toLowerCase on one character
UpperMap == [c \in {LowerLetters[i] : i \in 1..Len(LowerLetters)} |->
               UpperLetters[CHOOSE i \in 1..Len(LowerLetters) : LowerLetters[i] = c]]
LowerMap == [c \in {UpperLetters[i] : i \in 1..Len(UpperLetters)} |->
               LowerLetters[CHOOSE i \in 1..Len(UpperLetters) : UpperLetters[i] = c]]

toUpperCase(c) == IF c \in DOMAIN UpperMap THEN UpperMap[c] ELSE c

toLowerCase(c) == IF c \in DOMAIN LowerMap THEN LowerMap[c] ELSE c

IsWhitespace(c) == c \in {" ", "\n", "\t"}

MinOf(S) == CHOOSE x \in S : \A y \in S : x <= y
MaxOf(S) == CHOOSE x \in S : \A y \in S : x >= y

\* String.prototype.trim
trim(text) ==
  LET keep == {i \in 1..Len(text) : ~IsWhitespace(text[i])}
  IN  IF keep = {} THEN <<>> ELSE SubSeq(text, MinOf(keep), MaxOf(keep))

\* new RegExp(word, "i").test(text): a case-insensitive substring test
regexTest(word, text) ==
  LET w == [i \in 1..Len(word) |-> toLowerCase(word[i])]
      t == [i \in 1..Len(text) |-> toLowerCase(text[i])]
  IN  \E i \in 1..(Len(t) - Len(w) + 1) : SubSeq(t, i, i + Len(w) - 1) = w

\* /a|b|c/i.test(text)
regexTestAny(words, text) == \E i \in 1..Len(words) : regexTest(words[i], text)

\* Array.prototype.join
join(parts, sep) ==
  LET upTo[k \in 0..Len(parts)] ==
        IF k = 0 THEN <<>>
        ELSE IF k = 1 THEN parts[1]
        ELSE upTo[k - 1] \o sep \o parts[k]
  IN  upTo[Len(parts)]

\* Array.prototype.slice(-n)
sliceLast(seq, n) ==
  IF Len(seq) <= n THEN seq ELSE SubSeq(seq, Len(seq) - n + 1, Len(seq))

\* ------------------------------------------------- heuristic generator
marketplaces ==
  << <<"A","m","a","z","o","n">>,
     <<"F","l","i","p","k","a","r","t">>,
     <<"M","e","e","s","h","o">>,
     <<"M","y","n","t","r","a">> >>

\* /catalog|listing|sheet|excel|sku|product/i
CatalogPattern ==
  << <<"c","a","t","a","l","o","g">>,
     <<"l","i","s","t","i","n","g">>,
     <<"s","h","e","e","t">>,
     <<"e","x","c","e","l">>,
     <<"s","k","u">>,
     <<"p","r","o","d","u","c","t">> >>

\* /task|plan|today|remind|schedule|priority|deadline/i
TaskPattern ==
  << <<"t","a","s","k">>,
     <<"p","l","a","n">>,
     <<"t","o","d","a","y">>,
     <<"r","e","m","i","n","d">>,
     <<"s","c","h","e","d","u","l","e">>,
     <<"p","r","i","o","r","i","t","y">>,
     <<"d","e","a","d","l","i","n","e">> >>

sentenceCase(text) ==
  IF text = <<>> THEN <<>>
  ELSE LET trimmed == trim(text)
       IN  IF trimmed = <<>> THEN <<>>
           ELSE <<toUpperCase(Head(trimmed))>> \o Tail(trimmed)

detectedCaseSensitively(input) ==
  SelectSeq(marketplaces,
            LAMBDA name : \E i \in 1..(Len(input) - Len(name) + 1) :
                            SubSeq(input, i, i + Len(name) - 1) = name)

detectedMarketplaces(input) ==
  SelectSeq(marketplaces, LAMBDA name : regexTest(name, input))

wantsCatalog(input) ==
  regexTestAny(CatalogPattern, input) \/ Len(detectedMarketplaces(input)) > 0

wantsTasksWithoutPlan(input) ==
  regexTestAny(SelectSeq(TaskPattern, LAMBDA w : w # <<"p","l","a","n">>), input)

wantsTasks(input) == regexTestAny(TaskPattern, input)

TaskSection ==
  << <<"[card index dividers] Daily Ops Blueprint:">>,
     <<"- Prioritise based on impact -> revenue, compliance, customer experience.">>,
     <<"- Break work into 90-minute focus blocks with clear Done Definitions.">>,
     <<"- Reserve the final block for QA checks and reporting back to leadership.">> >>

\* lines 490-492
channelPlan(detected) ==
  IF Len(detected) > 0
  THEN join(detected, <<",", " ">>)
  ELSE <<"Amazon, Flipkart, Meesho, and Myntra">>

CatalogSection(detected) ==
  << <<"[shopping cart] ">> \o channelPlan(detected) \o <<" Listing Automation:">>,
     <<"- Clean your master sheet: ensure SKU, Title, MRP, Offer Price, Color, Size, Fabric, and Image URLs are present.">>,
     <<"- Use the Catalog Automation Lab panel -> upload the latest supplier file, then generate marketplace CSVs.">>,
     <<"- Enrich copy automatically: include 3 USP bullet points, search keywords, and compliance notes for GST/Legal.">> >>

StandbySection ==
  << <<"[robot] Jarvis Ready:">>,
     <<"- Share a task, question, or catalog sheet - I will prep the steps, automations, and documents you need.">> >>

responseSectionsWithoutStandby(tasks, catalog, detected) ==
  (IF tasks THEN TaskSection ELSE <<>>) \o (IF catalog THEN CatalogSection(detected) ELSE <<>>)

\* lines 478-507, from the function's locals wantsTasks, wantsCatalog and
\* detectedMarketplaces
responseSections(tasks, catalog, detected) ==
  (IF tasks THEN TaskSection ELSE <<>>)
  \o (IF catalog THEN CatalogSection(detected) ELSE <<>>)
  \o (IF ~catalog /\ ~tasks THEN StandbySection ELSE <<>>)

TaskFollowUps ==
  << <<"Should I schedule reminders and sync them to your preferred calendar?">>,
     <<"Want me to draft stakeholder updates once each task is closed?">> >>

CatalogFollowUps ==
  << <<"Would you like marketplace-compliant image naming rules generated?">>,
     <<"Need SEO keywords per SKU for sponsored ads?">> >>

GenericFollowUps ==
  << <<"Upload the latest catalog so I can generate ready-to-use marketplace sheets.">>,
     <<"Tell me your top priority for today and I will create an execution timeline.">> >>

followUpsWithoutDefault(tasks, catalog) ==
  (IF tasks THEN TaskFollowUps ELSE <<>>) \o (IF catalog THEN CatalogFollowUps ELSE <<>>)

\* lines 509-530
followUps(tasks, catalog) ==
  LET picked == (IF tasks THEN TaskFollowUps ELSE <<>>)
                \o (IF catalog THEN CatalogFollowUps ELSE <<>>)
  IN  IF Len(picked) = 0 THEN GenericFollowUps ELSE picked

\* lines 534-538
summary(tasks, catalog) ==
  IF catalog
  THEN <<"Catalog automation plan prepared with channel-specific actions.">>
  ELSE IF tasks
       THEN <<"Daily operations plan generated.">>
       ELSE <<"Standing by for instructions.">>

\* line 533: responseSections.map(sentenceCase).join("\n")
replyText(sections) ==
  join([i \in 1..Len(sections) |-> sentenceCase(sections[i])], <<"\n">>)

\* A JSON value as the route and the component handle it: its type, the keys
\* it has, and the values of the three keys the program reads.
JsonObject(keys, reply, sum, fups) ==
  [type |-> "object", keys |-> keys, reply |-> reply, summary |-> sum, followUps |-> fups]

JsonNull == [type |-> "null", keys |-> {}, reply |-> <<>>, summary |-> <<>>, followUps |-> <<>>]

buildHeuristicResponse(input) ==
  LET detected == detectedMarketplaces(input)
      catalog == wantsCatalog(input)
      tasks == wantsTasks(input)
  IN  JsonObject({"reply", "summary", "followUps"},
                 replyText(responseSections(tasks, catalog, detected)),
                 summary(tasks, catalog),
                 followUps(tasks, catalog))


\* ------------------------------------------------------------ environment
\* what the user can have in the text box
InputTexts == { <<" ">>, <<" ","s","k","u"," ">> }

\* words a message to the assistant is made of: the marketplace names in
\* several spellings, catalog and task vocabulary, and neutral words
HeuristicWords ==
  { <<"a","m","a","z","o","n">>,
    <<"F","L","I","P","K","A","R","T">>,
    <<"M","e","e","s","h","o">>,
    <<"m","y","n","t","r","a">>,
    <<"s","k","u">>,
    <<"e","x","c","e","l">>,
    <<"t","o","d","a","y">>,
    <<"r","e","m","i","n","d","e","r">>,
    <<"h","e","l","l","o">>,
    <<"s","t","o","c","k">> }

\* the messages of up to n of these words, one space between them
RECURSIVE Phrases(_)
Phrases(n) ==
  IF n = 0 THEN {<<>>}
  ELSE LET shorter == Phrases(n - 1)
       IN  shorter \cup {(IF p = <<>> THEN w ELSE p \o <<" ">> \o w) :
                          p \in shorter, w \in HeuristicWords}

PrimeDayMessage ==
  <<"P","l","a","n"," ","m","y"," ","A","m","a","z","o","n"," ","P","r","i","m","e"," ","D","a","y"," ","l","i","s","t","i","n","g","s">>

\* what the user can submit in the specification of the heuristic generator
HeuristicInputs == (Phrases(MaxWords) \ {<<>>}) \cup {PrimeDayMessage}

Segment(isFinal, transcript) == [isFinal |-> isFinal, transcript |-> transcript]

\* recognition result events: resultIndex and the results list; positions
\* count from 1 here, so resultIndex 1 is the event's first result
ResultEvents ==
  { [resultIndex |-> 1, results |-> << Segment(FALSE, <<"h">>) >>],
    [resultIndex |-> 1, results |-> << Segment(FALSE, <<"s">>), Segment(TRUE, <<" ","h","i"," ">>) >>],
    [resultIndex |-> 2, results |-> << Segment(TRUE, <<"h","i">>), Segment(TRUE, <<" ">>) >>],
    [resultIndex |-> 1, results |-> << Segment(TRUE, <<"h">>), Segment(TRUE, <<"i">>) >>] }

\* SpeechRecognitionErrorEvent.error codes the source reports
ErrorCodes == { <<"no-speech">>, <<"not-allowed">> }

\* what the remote model endpoint can answer to one call
RemoteReply(status, hasContent, parses, value) ==
  [status |-> status, hasContent |-> hasContent, parses |-> parses, value |-> value]

ModelAnswer == JsonObject({"reply", "summary"}, <<"Here is your plan.">>, <<"Plan ready.">>, <<>>)
EmptyReplyAnswer == JsonObject({"reply"}, <<>>, <<>>, <<>>)
OffSchemaAnswer == JsonObject({"answer"}, <<>>, <<>>, <<>>)

RemoteReplies ==
  { RemoteReply(200, TRUE, TRUE, ModelAnswer),
    RemoteReply(200, TRUE, TRUE, EmptyReplyAnswer),
    RemoteReply(200, TRUE, TRUE, OffSchemaAnswer),
    RemoteReply(200, TRUE, FALSE, JsonNull),
    RemoteReply(200, FALSE, FALSE, JsonNull),
    RemoteReply(500, FALSE, FALSE, JsonNull) }

\* how the request to /api/assistant can fail before the route answers:
\* status 0 stands for a rejected fetch, 502 for a gateway answer
TransportFailures == {0, 502}

\* ------------------------------------------------------------------ state
VARIABLES
  messages,           \* useState<Message[]>
  input,              \* useState("")
  listening,          \* useState(false)
  interimTranscript,  \* useState("")
  isLoading,          \* useState(false)
  autoSpeak,          \* useState(true)
  error,              \* useState<string | null>; <<>> stands for null
  rendered,           \* the values the callbacks of the committed render closed over
  registered,         \* the values the submitMessage of the registered handleResult closed over
  recognitionRef,     \* TRUE when recognitionSingleton() returned a controller
  apiKey,             \* TRUE when OPENAI_API_KEY is set
  synth,              \* TRUE when window.speechSynthesis exists
  source,             \* the recognition source's session state
  requests,           \* every fetch("/api/assistant") issued, in order
  synthQueue,         \* utterances speech synthesis holds
  listeners,          \* the listeners the recognition source holds, per event type
  mounted             \* TRUE until the component is unmounted

state == <<messages, input, listening, interimTranscript, isLoading, autoSpeak, error>>
env == <<recognitionRef, apiKey, synth>>
vars == <<messages, input, listening, interimTranscript, isLoading, autoSpeak, error,
          rendered, registered, recognitionRef, apiKey, synth, source, requests, synthQueue,
          listeners, mounted>>

Message(role, content) == [role |-> role, content |-> content]

NoResponse == [status |-> -1, body |-> JsonNull]

\* the closure values of a render of the given state
Closure(msgs, inp, lis, load, auto) ==
  [messages |-> msgs, input |-> inp, listening |-> lis, isLoading |-> load, autoSpeak |-> auto]

\* the dependencies of submitMessage (useCallback deps)
SubmitDeps(c) == [messages |-> c.messages, isLoading |-> c.isLoading, autoSpeak |-> c.autoSpeak]

\* the event types the effect listens to (lines 222-225)
EventTypes == {"start", "result", "end", "error"}

NoListeners == [t \in EventTypes |-> <<>>]

effectCleanupNothing(ls, c) == ls

\* lines 227-232: the effect's cleanup removes the four handlers its run
\* registered; c identifies that run by the submitMessage it closed over
effectCleanup(ls, c) ==
  [t \in EventTypes |-> SelectSeq(ls[t], LAMBDA l : l # c)]

\* lines 222-225: addEventListener for the four handlers of this run
effectSetup(ls, c) == [t \in EventTypes |-> Append(ls[t], c)]

Init ==
  /\ messages = <<>>
  /\ input = <<>>
  /\ listening = FALSE
  /\ interimTranscript = <<>>
  /\ isLoading = FALSE
  /\ autoSpeak = TRUE
  /\ error = <<>>
  /\ rendered = Closure(<<>>, <<>>, FALSE, FALSE, TRUE)
  /\ registered = SubmitDeps(rendered)
  /\ recognitionRef \in BOOLEAN
  /\ apiKey \in BOOLEAN
  /\ synth \in BOOLEAN
  /\ source = "idle"
  /\ requests = <<>>
  /\ synthQueue = <<>>
  /\ listeners = IF recognitionRef THEN effectSetup(NoListeners, registered) ELSE NoListeners
  /\ mounted = TRUE

\* ------------------------------------------------------- render and effect
\* React commits a render of the current state; pending passive effects are
\* flushed before a new render starts.
EffectPending == recognitionRef /\ registered # SubmitDeps(rendered)

Render ==
  /\ ~EffectPending
  /\ rendered # Closure(messages, input, listening, isLoading, autoSpeak)
  /\ rendered' = Closure(messages, input, listening, isLoading, autoSpeak)
  /\ UNCHANGED <<state, env, registered, listeners, mounted, source, requests, synthQueue>>

\* the recognition effect: removes the four listeners and registers the four
\* of the committed render
RecognitionEffect ==
  /\ EffectPending
  /\ registered' = SubmitDeps(rendered)
  /\ listeners' = effectSetup(effectCleanup(listeners, registered), SubmitDeps(rendered))
  /\ UNCHANGED mounted
  /\ UNCHANGED <<state, env, rendered, source, requests, synthQueue>>

\* updates made in a React event handler (submit, click, change) are rendered
\* and their effects flushed before the next event is handled
FlushSync ==
  /\ rendered' = Closure(messages', input', listening', isLoading', autoSpeak')
  /\ registered' = IF recognitionRef THEN SubmitDeps(rendered') ELSE registered
  /\ listeners' = IF recognitionRef /\ SubmitDeps(rendered') # registered
                  THEN effectSetup(effectCleanup(listeners, registered), SubmitDeps(rendered'))
                  ELSE listeners
  /\ UNCHANGED mounted

\* ------------------------------------------------------------ submitMessage
HistoryWindow == 6

rejectsOnlyWhileLoading(trimmed, c) == c.isLoading

\* line 111: if (!trimmed || isLoading) return
rejects(trimmed, c) == trimmed = <<>> \/ c.isLoading

\* line 132: messages.slice(-6)
historySent(c) == sliceLast(c.messages, HistoryWindow)

newRequest(trimmed, c) ==
  [message |-> trimmed, history |-> historySent(c), autoSpeak |-> c.autoSpeak,
   stage |-> "sent", remoteCalls |-> 0, path |-> "pending", resp |-> NoResponse]

appendIntoWindow(prev, message) == sliceLast(Append(prev, message), HistoryWindow)

\* lines 122, 149, 165: setMessages((prev) => [...prev, message])
appendMessage(prev, message) == Append(prev, message)

\* submitMessage up to its first await, run with the closure c; interim is
\* what interimTranscript was last set to before the call
submitMessage(text, c, interim) ==
  LET trimmed == trim(text)
  IN  IF rejects(trimmed, c)
      THEN /\ interimTranscript' = interim
           /\ UNCHANGED <<messages, input, isLoading, error, requests>>
      ELSE /\ messages' = appendMessage(messages, Message("user", trimmed))
           /\ input' = <<>>
           /\ interimTranscript' = <<>>
           /\ isLoading' = TRUE
           /\ error' = <<>>
           /\ requests' = Append(requests, newRequest(trimmed, c))

\* the form's onSubmit (lines 332-335)
onSubmit ==
  /\ submitMessage(rendered.input, rendered, interimTranscript)
  /\ UNCHANGED <<listening, autoSpeak, env, source, synthQueue>>
  /\ IF rejects(trim(rendered.input), rendered) THEN UNCHANGED <<rendered, registered, listeners, mounted>> ELSE FlushSync

TypedSubmit ==
  /\ Len(requests) < MaxSubmits
  /\ onSubmit

\* the same, in the specification of the long transcript
LongTypedSubmit ==
  /\ Len(requests) < MaxTranscriptSubmits
  /\ onSubmit

\* the text box's onChange; the box is disabled while the render shows isLoading
ChangeInput ==
  /\ ~rendered.isLoading
  /\ \E t \in InputTexts \cup {<<>>} :
       /\ t # input
       /\ input' = t
  /\ UNCHANGED <<messages, listening, interimTranscript, isLoading, autoSpeak, error>>
  /\ FlushSync
  /\ UNCHANGED <<env, source, requests, synthQueue>>

\* the auto-speak checkbox's onChange
ToggleAutoSpeak ==
  /\ autoSpeak' = ~rendered.autoSpeak
  /\ UNCHANGED <<messages, input, listening, interimTranscript, isLoading, error>>
  /\ FlushSync
  /\ UNCHANGED <<env, source, requests, synthQueue>>

\* ------------------------------------------------------ recognition effect
\* lines 179-183
handleStart ==
  /\ error' = <<>>
  /\ interimTranscript' = <<>>
  /\ listening' = TRUE
  /\ UNCHANGED <<messages, input, isLoading, requests>>

\* lines 191-200: the transcripts of the results from position first on
\* whose isFinal flag equals wanted, concatenated
concatSegments(results, first, wanted) ==
  LET upTo[k \in (first - 1)..Len(results)] ==
        IF k < first THEN <<>>
        ELSE upTo[k - 1] \o (IF results[k].isFinal = wanted THEN results[k].transcript ELSE <<>>)
  IN  upTo[Len(results)]

interimOf(event) == concatSegments(event.results, event.resultIndex, FALSE)
finalTranscriptOf(event) == concatSegments(event.results, event.resultIndex, TRUE)

\* line 204: if (finalTranscript.trim())
hasFinalText(event) == trim(finalTranscriptOf(event)) # <<>>

\* lines 185-207, run with the submitMessage closure c
handleResult(event, c) ==
  IF hasFinalText(event)
  THEN submitMessage(trim(finalTranscriptOf(event)), c, interimOf(event))
  ELSE /\ interimTranscript' = interimOf(event)
       /\ UNCHANGED <<messages, input, isLoading, error, requests>>

handleEndKeepsListening ==
  UNCHANGED <<messages, input, listening, interimTranscript, isLoading, error, requests>>

\* lines 209-211
handleEnd ==
  /\ listening' = FALSE
  /\ UNCHANGED <<messages, input, interimTranscript, isLoading, error, requests>>

\* lines 214-217
errorMessage(code) ==
  IF code = <<"no-speech">> THEN <<"I could not hear you.">>
  ELSE IF code # <<>> THEN code ELSE <<"Voice input failed.">>

handleErrorKeepsListening(code) ==
  /\ error' = errorMessage(code)
  /\ UNCHANGED <<messages, input, listening, interimTranscript, isLoading, requests>>

\* lines 213-220
handleError(code) ==
  /\ error' = errorMessage(code)
  /\ listening' = FALSE
  /\ UNCHANGED <<messages, input, interimTranscript, isLoading, requests>>

\* ---------------------------------------------------- recognition source
\* The source is idle, starting (start() called, start event not yet
\* dispatched), active, stopping (stop() called) or ending (it will only
\* dispatch end).  Its events reach the registered listeners; React renders
\* their updates later (Render).
SourceStart ==
  /\ source = "starting"
  /\ source' = "active"
  /\ handleStart
  /\ UNCHANGED <<autoSpeak, env, rendered, registered, listeners, mounted, synthQueue>>

\* recognition.continuous = false (line 62): the source returns no further
\* result after one that carries a final segment
SourceResultOf(event) ==
  /\ source \in {"active", "stopping"}
  /\ hasFinalText(event) => Len(requests) < MaxSubmits
  /\ handleResult(event, registered)
  /\ source' = IF \E i \in event.resultIndex..Len(event.results) : event.results[i].isFinal
               THEN "ending" ELSE source
  /\ UNCHANGED <<listening, autoSpeak, env, rendered, registered, listeners, mounted, synthQueue>>

SourceResult == \E event \in ResultEvents : SourceResultOf(event)

\* the source reports an error; it dispatches end afterwards
SourceErrorOf(code) ==
  /\ source \in {"starting", "active", "stopping"}
  /\ source' = "ending"
  /\ handleError(code)
  /\ UNCHANGED <<autoSpeak, env, rendered, registered, listeners, mounted, synthQueue>>

SourceError == \E code \in ErrorCodes : SourceErrorOf(code)

SourceEnd ==
  /\ source \in {"active", "stopping", "ending"}
  /\ source' = "idle"
  /\ handleEnd
  /\ UNCHANGED <<autoSpeak, env, rendered, registered, listeners, mounted, synthQueue>>

\* ---------------------------------------------------------- toggleListening
ToggleUnsupportedListens ==
  /\ ~recognitionRef
  /\ error' = <<"Voice recognition is not supported in this browser.">>
  /\ listening' = TRUE
  /\ UNCHANGED <<messages, input, interimTranscript, isLoading, autoSpeak>>
  /\ FlushSync
  /\ UNCHANGED <<env, source, requests, synthQueue>>

\* lines 237-240: no controller
ToggleUnsupported ==
  /\ ~recognitionRef
  /\ error' = <<"Voice recognition is not supported in this browser.">>
  /\ UNCHANGED <<messages, input, listening, interimTranscript, isLoading, autoSpeak>>
  /\ FlushSync
  /\ UNCHANGED <<env, source, requests, synthQueue>>

\* controller.stop()
sourceAfterStop(s) == IF s \in {"starting", "active"} THEN "stopping" ELSE s

\* what toggleListening sets when it stops a session (lines 242-246)
stopSession ==
  /\ listening' = FALSE
  /\ UNCHANGED <<messages, input, interimTranscript, isLoading, autoSpeak, error>>

ToggleStop ==
  /\ recognitionRef
  /\ rendered.listening
  /\ source' = sourceAfterStop(source)
  /\ stopSession
  /\ FlushSync
  /\ UNCHANGED <<env, requests, synthQueue>>

\* controller.start() (line 248); on a source that is not idle the call
\* throws InvalidStateError and nothing changes
ToggleStart ==
  /\ recognitionRef
  /\ ~rendered.listening
  /\ source' = IF source = "idle" THEN "starting" ELSE source
  /\ UNCHANGED <<state, env, rendered, registered, listeners, mounted, requests, synthQueue>>

\* ------------------------------------------------------- /api/assistant
\* the messages the environment above can make the component send, and the
\* empty message of the route's catch block
KnownMessages ==
  {trim(t) : t \in InputTexts}
  \cup {trim(finalTranscriptOf(event)) : event \in ResultEvents}
  \cup {trim(t) : t \in HeuristicInputs}
  \cup {<<>>}

\* buildHeuristicResponse, computed once for each of these messages
HeuristicResponses == [m \in KnownMessages |-> buildHeuristicResponse(m)]

Response(status, body) == [status |-> status, body |-> body]

isOk(status) == status >= 200 /\ status <= 299

\* line 546: (body.message ?? "").trim()
incomingMessage(req) == trim(req.message)

\* lines 556-558: entries with a role and a non-empty content, the last 6
historyForwarded(req) ==
  sliceLast(SelectSeq(req.history, LAMBDA entry : entry.content # <<>>), HistoryWindow)

\* lines 580-584: the messages of the payload sent to the remote model
payloadMessages(req) ==
  << Message("system", <<"SYSTEM_PROMPT">>) >>
  \o historyForwarded(req)
  \o << Message("user", incomingMessage(req)) >>

\* line 611: the catch block's response
fallbackResponse(req) == Response(200, HeuristicResponses[<<>>])

\* lines 548-554: what the route answers before any remote call
answerWithoutRemote(req) ==
  IF incomingMessage(req) = <<>>
  THEN Response(400, JsonObject({"error"}, <<>>, <<>>, <<>>))
  ELSE Response(200, HeuristicResponses[incomingMessage(req)])

skipsRemoteIgnoringKey(req, key) == incomingMessage(req) = <<>>

\* lines 548, 552: the conditions under which the route returns without
\* calling the remote model
skipsRemote(req, key) == incomingMessage(req) = <<>> \/ ~key

\* lines 596-608: the remote reply is refused (the route throws)
remoteFailed(reply) == ~isOk(reply.status) \/ ~reply.hasContent \/ ~reply.parses

remoteCallsWithRetry(req, key, reply) ==
  IF incomingMessage(req) = <<>> \/ ~key THEN 0 ELSE IF remoteFailed(reply) THEN 2 ELSE 1

\* lines 587-594: the calls the route makes to the remote model for one
\* request: one when it gets that far, and none after a failure
remoteCallsMade(req, key, reply) == IF skipsRemote(req, key) THEN 0 ELSE 1

\* lines 543-613: the route's answer to req when the remote model, if it is
\* called, answers with reply
POST(req, key, reply) ==
  IF skipsRemote(req, key) THEN answerWithoutRemote(req)
  ELSE IF remoteFailed(reply) THEN fallbackResponse(req)
       ELSE Response(200, reply.value)

\* which way the route took: it returned before the remote call, the remote
\* call failed, or the remote answer was passed on
pathTaken(req, key, reply) ==
  IF skipsRemote(req, key) THEN "no-remote"
  ELSE IF remoteFailed(reply) THEN "remote-failed" ELSE "remote-ok"

\* the route handles request i
PostHandler ==
  /\ UNCHANGED <<state, env, rendered, registered, listeners, mounted, source, synthQueue>>
  /\ \E i \in 1..Len(requests), reply \in RemoteReplies :
       /\ requests[i].stage = "sent"
       /\ requests' =
            [requests EXCEPT ![i].stage = "responded",
                             ![i].remoteCalls = @ + remoteCallsMade(requests[i], apiKey, reply),
                             ![i].path = pathTaken(requests[i], apiKey, reply),
                             ![i].resp = POST(requests[i], apiKey, reply)]

\* the fetch of request i is rejected, or answered by a gateway
TransportFails ==
  /\ UNCHANGED <<state, env, rendered, registered, listeners, mounted, source, synthQueue>>
  /\ \E i \in 1..Len(requests), status \in TransportFailures :
       /\ requests[i].stage = "sent"
       /\ requests' = [requests EXCEPT ![i].stage = "responded",
                                       ![i].path = "transport",
                                       ![i].resp = Response(status, JsonNull)]

\* ------------------------------------------- submitMessage after its await
\* lines 135-139: the Error the try block throws, <<>> when it does not throw
thrownMessage(resp) ==
  IF resp.status = 0 THEN <<"Failed to fetch">>
  ELSE IF ~isOk(resp.status)
       THEN <<"Assistant offline (", ToString(resp.status), ")">>
       ELSE IF resp.body.type = "null"
            THEN <<"Cannot read properties of null (reading 'reply')">>
            ELSE <<>>

\* line 140: data.reply ?? "I am ready for your next task."
replyOf(data) ==
  IF "reply" \in data.keys THEN data.reply ELSE <<"I am ready for your next task.">>

\* lines 142-147 and 155-163: the content of the assistant message appended
assistantContent(resp) ==
  IF thrownMessage(resp) # <<>>
  THEN <<"I ran into an issue: ">> \o thrownMessage(resp) \o <<". Please try again.">>
  ELSE replyOf(resp.body)

speakWithoutCancel(text, queue) == IF ~synth THEN queue ELSE Append(queue, text)

\* lines 90-106: speech.cancel() then speech.speak(utterance)
speak(text, queue) == IF ~synth THEN queue ELSE Append(<<>>, text)

speaksErrorsToo(req, resp, queue) ==
  IF req.autoSpeak THEN speak(assistantContent(resp), queue) ELSE queue

\* lines 151-153
spoken(req, resp, queue) ==
  IF thrownMessage(resp) = <<>> /\ req.autoSpeak THEN speak(replyOf(resp.body), queue) ELSE queue

loadingStuck == isLoading

\* line 167: finally { setIsLoading(false) }
loadingAfterCompletion == FALSE

\* the continuation of submitMessage for request i (lines 135-168)
Complete ==
  /\ \E i \in 1..Len(requests) :
       /\ requests[i].stage = "responded"
       /\ messages' = appendMessage(messages, Message("assistant", assistantContent(requests[i].resp)))
       /\ synthQueue' = spoken(requests[i], requests[i].resp, synthQueue)
       /\ isLoading' = loadingAfterCompletion
       /\ requests' = [requests EXCEPT ![i].stage = "done", ![i].resp = NoResponse]
  /\ UNCHANGED <<input, listening, interimTranscript, autoSpeak, error, env, rendered, registered, listeners, mounted, source>>

\* speech synthesis finishes the utterance at the head of its queue
SpeechEnds ==
  /\ synthQueue # <<>>
  /\ synthQueue' = Tail(synthQueue)
  /\ UNCHANGED <<state, env, rendered, registered, listeners, mounted, source, requests>>

\* ----------------------------------------------------------- specifications
\* The conversation: typed and spoken submissions, renders, the route and the
\* completions, in a browser with speech synthesis, with and without a
\* recognition source and an API key.
ConversationInit == Init /\ synth

Next ==
  \/ Render \/ RecognitionEffect \/ TypedSubmit \/ ChangeInput
  \/ SourceStart \/ SourceResult \/ SourceEnd
  \/ ToggleUnsupported \/ ToggleStop \/ ToggleStart
  \/ PostHandler \/ TransportFails \/ Complete

Spec == ConversationInit /\ [][Next]_vars

\* every request is answered or fails, every continuation runs, and React
\* renders and flushes effects
Fairness ==
  /\ WF_vars(TransportFails \/ PostHandler)
  /\ WF_vars(Complete)
  /\ WF_vars(Render)
  /\ WF_vars(RecognitionEffect)

FairSpec == Spec /\ Fairness

\* the whole component: the conversation with source errors, the auto-speak
\* switch and the end of spoken utterances
FullNext == Next \/ SourceError \/ ToggleAutoSpeak \/ SpeechEnds

FullSpec == Init /\ [][FullNext]_vars

\* The heuristic generator: the state right after the form was submitted
\* with one of HeuristicInputs in a browser without a recognition source,
\* then the route and the continuation.
HeuristicInit ==
  /\ \E m \in HeuristicInputs :
       /\ messages = << Message("user", trim(m)) >>
       /\ requests = << newRequest(trim(m), Closure(<<>>, m, FALSE, FALSE, TRUE)) >>
  /\ input = <<>>
  /\ listening = FALSE
  /\ interimTranscript = <<>>
  /\ isLoading = TRUE
  /\ autoSpeak = TRUE
  /\ error = <<>>
  /\ rendered = Closure(messages, input, listening, isLoading, autoSpeak)
  /\ registered = SubmitDeps(Closure(<<>>, <<>>, FALSE, FALSE, TRUE))
  /\ recognitionRef = FALSE
  /\ apiKey \in BOOLEAN
  /\ synth = TRUE
  /\ source = "idle"
  /\ synthQueue = <<>>
  /\ listeners = NoListeners
  /\ mounted = TRUE

HeuristicNext == PostHandler \/ Complete

HeuristicSpec == HeuristicInit /\ [][HeuristicNext]_vars

\* The long transcript: typed round trips, one after the other, in a browser
\* without a recognition source, until the transcript is longer than the
\* window sent upstream.
TranscriptInit == Init /\ synth /\ ~recognitionRef

TranscriptNext ==
  \/ Render \/ LongTypedSubmit \/ ChangeInput
  \/ PostHandler \/ TransportFails \/ Complete

TranscriptSpec == TranscriptInit /\ [][TranscriptNext]_vars

\* Typed round trips with the auto-speak switch, in a browser with speech
\* synthesis and without a recognition source.
AutoSpeakInit == Init /\ synth /\ ~recognitionRef

AutoSpeakNext ==
  \/ Render \/ TypedSubmit \/ ChangeInput \/ ToggleAutoSpeak
  \/ PostHandler \/ TransportFails \/ Complete

AutoSpeakSpec == AutoSpeakInit /\ [][AutoSpeakNext]_vars

\* the component is unmounted: the effect's cleanup runs (lines 226-232)
Unmount ==
  /\ mounted
  /\ mounted' = FALSE
  /\ listeners' = IF recognitionRef THEN effectCleanup(listeners, registered) ELSE listeners
  /\ UNCHANGED <<state, env, rendered, registered, source, requests, synthQueue>>

\* the conversation until the component is unmounted; nothing of the
\* component runs after its teardown
LifecycleNext == (mounted /\ Next) \/ Unmount

LifecycleSpec == ConversationInit /\ [][LifecycleNext]_vars

\* the conversation with a recognition source that can report errors
VoiceNext == Next \/ SourceError

VoiceSpec == ConversationInit /\ [][VoiceNext]_vars

\* ------------------------------------------------------------------ claims
InFlight == {i \in 1..Len(requests) : requests[i].stage # "done"}

UserCount == Cardinality({k \in 1..Len(messages) : messages[k].role = "user"})
AssistantCount == Cardinality({k \in 1..Len(messages) : messages[k].role = "assistant"})
DoneCount == Cardinality({i \in 1..Len(requests) : requests[i].stage = "done"})

\* the route's own answers (not a failure of the transport)
Answered(i) == requests[i].stage = "responded" /\ requests[i].path # "transport"

\* C1: at most one round trip is in flight at any time: no submission is
\* accepted, and no second request issued, while an earlier request has not
\* resolved.
C1_AtMostOneInFlight == Cardinality(InFlight) <= 1

\* C2: with a credential configured, when the remote call fails the route
\* answers with buildHeuristicResponse of the original trimmed message.
C2_FallbackUsesOriginalMessage ==
  \A i \in 1..Len(requests) :
    (apiKey /\ Answered(i) /\ requests[i].path = "remote-failed")
      => requests[i].resp = Response(200, buildHeuristicResponse(trim(requests[i].message)))

\* C3: if every request resolves or rejects, every accepted submission gets
\* exactly one assistant Utterance, and isLoading returns to false (in the
\* state and in the render) so later submissions are accepted again.
C3_EveryAcceptedSubmissionAnswered ==
  /\ [](UserCount = Len(requests) /\ AssistantCount = DoneCount)
  /\ \A i \in 1..MaxSubmits :
       (Len(requests) >= i) ~> (Len(requests) >= i /\ requests[i].stage = "done")
  /\ isLoading ~> (~isLoading /\ ~rendered.isLoading)

\* two round trips completed one after the other, the second accepted after
\* the first one's reply
C3_Witness ==
  /\ Len(requests) = 2
  /\ \A i \in 1..Len(requests) : requests[i].stage = "done"
  /\ [k \in 1..Len(messages) |-> messages[k].role] = <<"user", "assistant", "user", "assistant">>
  /\ ~isLoading /\ ~rendered.isLoading

\* C4: after a result event whose new segments carry final text that is not
\* blank, interimTranscript is empty.
C4_FinalResultClearsInterim ==
  [][\A event \in ResultEvents :
       (hasFinalText(event) /\ SourceResultOf(event)) => interimTranscript' = <<>>]_vars

\* C5: when toggleListening stops a session it asks the source to stop,
\* listening becomes false, interimTranscript is cleared and no Utterance is
\* appended.
C5_StopClearsInterim ==
  [][ToggleStop => /\ source' = sourceAfterStop(source)
                   /\ listening' = FALSE
                   /\ interimTranscript' = <<>>
                   /\ messages' = messages]_vars

\* C6: no retries: one request per accepted submission, at most one remote
\* call per request, and exactly one when the remote call failed.
C6_NoRetries ==
  /\ Len(requests) = UserCount
  /\ \A i \in 1..Len(requests) :
       /\ requests[i].remoteCalls <= 1
       /\ requests[i].path \in {"remote-failed", "remote-ok"} => requests[i].remoteCalls = 1

\* a request whose remote call failed has been answered with the fallback
\* and its reply appended
C6_Witness ==
  \E i \in 1..Len(requests) :
    requests[i].path = "remote-failed" /\ requests[i].stage = "done"

\* C7: without an API key the route makes no remote call and answers 200
\* with buildHeuristicResponse of the trimmed incoming message.
C7_NoKeyHeuristicOnly ==
  ~apiKey =>
    \A i \in 1..Len(requests) :
      /\ requests[i].remoteCalls = 0
      /\ Answered(i) =>
           requests[i].resp = Response(200, buildHeuristicResponse(trim(requests[i].message)))

\* without a key, the route answered a message with catalog vocabulary
C7_Witness ==
  /\ ~apiKey
  /\ \E i \in 1..Len(requests) :
       /\ Answered(i)
       /\ requests[i].message = <<"s","k","u">>
       /\ requests[i].resp.body.summary =
            <<"Catalog automation plan prepared with channel-specific actions.">>

IsStructuredResponse(body) ==
  /\ body.type = "object"
  /\ "reply" \in body.keys
  /\ body.keys \subseteq {"reply", "summary", "followUps"}

\* C8: every 200 body the route returns is a StructuredResponse: an object
\* with a reply and no keys other than reply, summary and followUps.
C8_BodyIsStructuredResponse ==
  \A i \in 1..Len(requests) :
    (Answered(i) /\ requests[i].resp.status = 200)
      => IsStructuredResponse(requests[i].resp.body)

\* C9: every Utterance in messages has content that is not empty after
\* trimming.
C9_ContentNonEmpty ==
  \A k \in 1..Len(messages) : trim(messages[k].content) # <<>>

\* C10: the history sent with an accepted submission is the last 6 entries
\* of the transcript as it stood just before the user Utterance was
\* appended, and the remote payload carries at most 6 history entries
\* followed by the new message.
C10_HistoryIsTrailingWindow ==
  [][Len(requests') > Len(requests) =>
       LET req == requests'[Len(requests')]
       IN  /\ req.history = sliceLast(messages, HistoryWindow)
           /\ Len(req.history) <= HistoryWindow
           /\ Len(historyForwarded(req)) <= HistoryWindow
           /\ payloadMessages(req)[Len(payloadMessages(req))] = Message("user", req.message)]_vars

\* the messages handleError records for the codes the source reports
RecordedErrors == {errorMessage(code) : code \in ErrorCodes}

\* C11: a source error records a message ('I could not hear you.' for
\* no-speech, any other code verbatim), sets listening to false and leaves
\* messages and isLoading unchanged; once the error is on screen the button
\* is a start request, and a start request on the idle source starts it.
C11_ErrorReportedAndRetryable ==
  /\ [][\A code \in ErrorCodes :
          SourceErrorOf(code) =>
            /\ error' = IF code = <<"no-speech">> THEN <<"I could not hear you.">> ELSE code
            /\ listening' = FALSE
            /\ messages' = messages
            /\ isLoading' = isLoading
            /\ requests' = requests]_vars
  /\ [](error \in RecordedErrors => ~listening)
  /\ []((error \in RecordedErrors /\ ~rendered.listening)
          => (ENABLED ToggleStart /\ ~ENABLED ToggleStop))
  /\ [][(ToggleStart /\ error \in RecordedErrors /\ source = "idle") => source' = "starting"]_vars

\* a session restarted after a not-allowed error: the error is still shown,
\* the source has been asked to start again
C11_Witness ==
  /\ error = <<"not-allowed">>
  /\ ~listening
  /\ source = "starting"

NotSupported == <<"Voice recognition is not supported in this browser.">>

\* C12: without a recognition source a start request only sets error to the
\* not-supported message: listening stays false, the source is never
\* started, messages, isLoading and interimTranscript are unchanged, and a
\* typed submission made afterwards is accepted.
C12_UnsupportedStartIsNoOp ==
  /\ [][ToggleUnsupported =>
          /\ error' = NotSupported
          /\ listening' = FALSE
          /\ messages' = messages
          /\ isLoading' = isLoading
          /\ interimTranscript' = interimTranscript
          /\ requests' = requests
          /\ source' = source]_vars
  /\ [](~recognitionRef => (~listening /\ source = "idle" /\ listeners = NoListeners))
  /\ [][(TypedSubmit /\ ~recognitionRef /\ error = NotSupported
            /\ trim(rendered.input) # <<>> /\ ~rendered.isLoading)
          => /\ requests' = Append(requests, newRequest(trim(rendered.input), rendered))
             /\ messages' = Append(messages, Message("user", trim(rendered.input)))]_vars

\* the capability error is on screen after a completed round trip, with text
\* in the box ready to be submitted
C12_Witness ==
  /\ ~recognitionRef
  /\ error = NotSupported
  /\ ~listening
  /\ Len(requests) = 1
  /\ requests[1].stage = "done"
  /\ trim(rendered.input) # <<>>
  /\ ~rendered.isLoading

\* C13: while the component is mounted with a recognition source, the source
\* holds exactly one listener per event type, the one of the effect's last
\* run, across every re-run of the effect; a result event makes at most one
\* submission; after the teardown the source holds no listener, and without
\* a source none is ever registered.
C13_OneListenerPerEvent ==
  /\ []((mounted /\ recognitionRef) => \A t \in EventTypes : listeners[t] = <<registered>>)
  /\ [](~(mounted /\ recognitionRef) => listeners = NoListeners)
  /\ [][\A event \in ResultEvents :
          SourceResultOf(event) =>
            /\ Len(listeners["result"]) = 1
            /\ Len(requests') <= Len(requests) + 1]_vars

\* the teardown after two round trips, each of which re-ran the effect
C13_Witness ==
  /\ ~mounted
  /\ recognitionRef
  /\ Len(messages) = 4
  /\ registered.messages = messages
  /\ listeners = NoListeners

\* the continuation of request i runs in this step
Completes(i) ==
  /\ i <= Len(requests)
  /\ requests[i].stage = "responded"
  /\ requests'[i].stage = "done"

\* C14: when the request to /api/assistant throws or is answered with a
\* non-2xx status, the continuation appends exactly one assistant Utterance
\* that explains the error, keeps the messages already there (the user
\* Utterance among them), hands nothing to speech synthesis and sets
\* isLoading to false.
C14_TransportErrorIsExplained ==
  [][\A i \in 1..MaxSubmits :
       (Completes(i) /\ ~isOk(requests[i].resp.status)) =>
         /\ Len(messages') = Len(messages) + 1
         /\ SubSeq(messages', 1, Len(messages)) = messages
         /\ \E k \in 1..Len(messages) : messages'[k] = Message("user", requests[i].message)
         /\ messages'[Len(messages')].role = "assistant"
         /\ Head(messages'[Len(messages')].content) = "I ran into an issue: "
         /\ synthQueue' = synthQueue
         /\ isLoading' = FALSE]_vars

\* a rejected fetch has been explained to the user in a browser that speaks
\* replies, and nothing was spoken
C14_Witness ==
  /\ synth /\ autoSpeak
  /\ Len(requests) = 1
  /\ requests[1].stage = "done"
  /\ requests[1].path = "transport"
  /\ messages = << Message("user", requests[1].message),
                   Message("assistant", <<"I ran into an issue: ", "Failed to fetch", ". Please try again.">>) >>
  /\ synthQueue = <<>>
  /\ ~isLoading

\* C15: submitMessage called with text that is empty or only white space
\* changes nothing: messages, input, interimTranscript, isLoading and error
\* are unchanged and no request is issued.
C15_BlankSubmissionIsNoOp ==
  [][(TypedSubmit /\ trim(rendered.input) = <<>>) =>
       UNCHANGED <<messages, input, interimTranscript, isLoading, error, requests>>]_vars

\* white space is in the box after a completed round trip, an error is on
\* screen, and the form can be submitted
C15_Witness ==
  /\ input = <<" ">>
  /\ rendered.input = <<" ">>
  /\ ~rendered.isLoading
  /\ error # <<>>
  /\ Len(messages) = 2
  /\ Len(requests) < MaxSubmits
  /\ ENABLED TypedSubmit

\* C20: every speak call cancels what speech synthesis holds before it
\* enqueues the new utterance: the queue never holds more than one
\* utterance, and after a reply is spoken it holds that reply alone.
C20_SpeakCancelsPrevious ==
  /\ [](Len(synthQueue) <= 1)
  /\ [][\A i \in 1..MaxSubmits :
          (Completes(i) /\ isOk(requests[i].resp.status) /\ requests[i].resp.body.type = "object"
             /\ requests[i].autoSpeak /\ synth)
            => synthQueue' = << messages'[Len(messages')].content >>]_vars

\* two replies were spoken one after the other while the first was still in
\* the queue; only the second is left
C20_Witness ==
  /\ Len(requests) = 2
  /\ \A i \in 1..2 : requests[i].stage = "done" /\ requests[i].path = "remote-ok"
  /\ Len(messages) = 4
  /\ messages[2].content # messages[4].content
  /\ synthQueue = << messages[4].content >>

\* request i was answered by buildHeuristicResponse applied to its message
HeuristicAnswer(i) ==
  /\ i <= Len(requests)
  /\ Answered(i)
  /\ requests[i].path = "no-remote"
  /\ requests[i].resp.status = 200

Amazon == <<"A","m","a","z","o","n">>

CatalogSummary == <<"Catalog automation plan prepared with channel-specific actions.">>

\* C16 as stated: for "Plan my Amazon Prime Day listings" the generator
\* detects exactly Amazon, catalog intent is true, task intent is false, the
\* summary is the catalog one and followUps has length 2.
C16_PrimeDayAsStated ==
  (HeuristicAnswer(1) /\ requests[1].message = PrimeDayMessage) =>
    /\ detectedMarketplaces(requests[1].message) = << Amazon >>
    /\ wantsCatalog(requests[1].message)
    /\ ~wantsTasks(requests[1].message)
    /\ requests[1].resp.body.summary = CatalogSummary
    /\ Len(requests[1].resp.body.followUps) = 2

\* C16 amended: for "Plan my Amazon Prime Day listings" the generator detects
\* exactly Amazon, catalog intent is true, task intent is true (the word
\* Plan), the summary is the catalog one, and followUps has length 4: the
\* two task suggestions followed by the two catalog suggestions.
C16_PrimeDayPlansAndLists ==
  (HeuristicAnswer(1) /\ requests[1].message = PrimeDayMessage) =>
    /\ detectedMarketplaces(requests[1].message) = << Amazon >>
    /\ wantsCatalog(requests[1].message)
    /\ wantsTasks(requests[1].message)
    /\ requests[1].resp.body.summary = CatalogSummary
    /\ Len(requests[1].resp.body.followUps) = 4
    /\ requests[1].resp.body.followUps =
         << <<"Should I schedule reminders and sync them to your preferred calendar?">>,
            <<"Want me to draft stakeholder updates once each task is closed?">>,
            <<"Would you like marketplace-compliant image naming rules generated?">>,
            <<"Need SEO keywords per SKU for sponsored ads?">> >>

\* the route answered the Prime Day message without the remote model
C16_Witness ==
  /\ HeuristicAnswer(1)
  /\ requests[1].message = PrimeDayMessage
  /\ "[card index dividers] Daily Ops Blueprint:" \in
       {requests[1].resp.body.reply[k] : k \in 1..Len(requests[1].resp.body.reply)}

RangeOf(seq) == {seq[k] : k \in 1..Len(seq)}

\* the marketplace names in their canonical order
CanonicalMarketplaces ==
  << Amazon, <<"F","l","i","p","k","a","r","t">>,
     <<"M","e","e","s","h","o">>, <<"M","y","n","t","r","a">> >>

\* the names that occur in a text, in canonical order
Mentioned(text) == SelectSeq(CanonicalMarketplaces, LAMBDA name : regexTest(name, text))

\* the first line of the catalog block for these names
CatalogHeader(names) ==
  <<"[shopping cart] ">> \o join(names, <<",", " ">>) \o <<" Listing Automation:">>

StatedCatalogVocabulary ==
  << <<"c","a","t","a","l","o","g">>,
     <<"l","i","s","t","i","n","g">>,
     <<"s","h","e","e","t">>,
     <<"s","p","r","e","a","d","s","h","e","e","t">>,
     <<"S","K","U">>,
     <<"p","r","o","d","u","c","t">> >>

StatedTaskVocabulary ==
  << <<"t","a","s","k">>,
     <<"p","l","a","n">>,
     <<"s","c","h","e","d","u","l","e">>,
     <<"r","e","m","i","n","d","e","r">>,
     <<"p","r","i","o","r","i","t","y">>,
     <<"d","e","a","d","l","i","n","e">> >>

StandbyReply ==
  <<"[robot] Jarvis Ready:", "\n",
    "- Share a task, question, or catalog sheet - I will prep the steps, automations, and documents you need.">>

GenericSuggestions ==
  << <<"Upload the latest catalog so I can generate ready-to-use marketplace sheets.">>,
     <<"Tell me your top priority for today and I will create an execution timeline.">> >>

\* C18 as stated: a message with none of catalog, listing, sheet,
\* spreadsheet, SKU, product, no marketplace name and none of task, plan,
\* schedule, reminder, priority, deadline gets the standby block only and
\* the two generic suggestions.
C18_StandbyAsStated ==
  (HeuristicAnswer(1)
     /\ ~regexTestAny(StatedCatalogVocabulary, requests[1].message)
     /\ Mentioned(requests[1].message) = <<>>
     /\ ~regexTestAny(StatedTaskVocabulary, requests[1].message)) =>
    /\ requests[1].resp.body.reply = StandbyReply
    /\ requests[1].resp.body.followUps = GenericSuggestions

\* C18 amended: a message with none of catalog, listing, sheet, excel, sku,
\* product, no marketplace name and none of task, plan, today, remind,
\* schedule, priority, deadline (as substrings, in any case) gets the
\* standby block only and the two generic suggestions.
C18_StandbyWithoutVocabulary ==
  (HeuristicAnswer(1)
     /\ ~regexTestAny(CatalogPattern, requests[1].message)
     /\ Mentioned(requests[1].message) = <<>>
     /\ ~regexTestAny(TaskPattern, requests[1].message)) =>
    /\ requests[1].resp.body.reply = StandbyReply
    /\ requests[1].resp.body.followUps = GenericSuggestions

\* "hello stock" was answered with the standby block
C18_Witness ==
  /\ HeuristicAnswer(1)
  /\ requests[1].message = <<"h","e","l","l","o"," ","s","t","o","c","k">>
  /\ requests[1].resp.body.reply = StandbyReply

\* request i was answered by buildHeuristicResponse, applied to its message
\* or, in the route's catch block, to the empty string
FromHeuristic(i) ==
  /\ i <= Len(requests)
  /\ Answered(i)
  /\ requests[i].path \in {"no-remote", "remote-failed"}

\* C19: for every input, the empty string included, buildHeuristicResponse
\* returns a StructuredResponse - an object with reply, summary and
\* followUps - whose reply is not empty, also after trimming, with one of
\* the three summaries and at least two followUps.
C19_HeuristicAlwaysAnswers ==
  FromHeuristic(1) =>
    LET body == requests[1].resp.body
    IN  /\ requests[1].resp.status = 200
        /\ IsStructuredResponse(body)
        /\ body.reply # <<>>
        /\ trim(body.reply) # <<>>
        /\ body.summary \in {CatalogSummary, <<"Daily operations plan generated.">>,
                              <<"Standing by for instructions.">>}
        /\ Len(body.followUps) >= 2

\* the catch block's buildHeuristicResponse("") answered with the standby
\* block
C19_Witness ==
  /\ FromHeuristic(1)
  /\ requests[1].path = "remote-failed"
  /\ requests[1].resp.body.reply = StandbyReply

\* C21: messages is append-only: every step leaves it unchanged or adds one
\* Utterance at its end; nothing is removed, reordered or modified, and the
\* transcript keeps what the 6-entry window sent upstream leaves out.
C21_MessagesAppendOnly ==
  /\ [][\/ messages' = messages
        \/ /\ Len(messages') = Len(messages) + 1
           /\ SubSeq(messages', 1, Len(messages)) = messages]_vars
  /\ [][Len(requests') > Len(requests) =>
          /\ Len(requests'[Len(requests')].history) <= HistoryWindow
          /\ Len(messages') = Len(messages) + 1]_vars

\* the fifth submission sent the last six of eight Utterances upstream, and
\* the transcript holds all of them and the two of the fifth round trip
C21_Witness ==
  /\ Len(requests) = 5
  /\ requests[5].stage = "done"
  /\ Len(messages) = 10
  /\ requests[5].history = SubSeq(messages, 3, 8)

\* C22: a start request made while a session is requested or running is
\* ignored: toggleListening calls the source's start() only while the source
\* is idle.
C22_StartOnlyWhenIdle ==
  (recognitionRef /\ source # "idle") => ~ENABLED ToggleStart

\* C23: listening becomes true only in the handler of the source's start
\* event, never by the start request; it is true only while the source has
\* started and has not ended, and it is false after every end event, error
\* event and stop request.
C23_ListeningFollowsSource ==
  /\ [][(~listening /\ listening') => (source = "starting" /\ SourceStart)]_vars
  /\ [][ToggleStart => listening' = listening]_vars
  /\ [](listening => source \in {"active", "ending"})
  /\ [][(SourceEnd \/ SourceError \/ ToggleStop) => ~listening']_vars

\* a session acknowledged by the source, shown as listening, with interim
\* text
C23_Witness ==
  /\ listening
  /\ rendered.listening
  /\ source = "active"
  /\ interimTranscript = <<"h">>

\* the continuation of request i runs in this step on a reply it appends
Succeeds(i) ==
  /\ Completes(i)
  /\ isOk(requests[i].resp.status)
  /\ requests[i].resp.body.type = "object"

\* C24: when a round trip completes with a reply, the reply is handed to
\* speak() if and only if auto-speak is enabled at that moment: with
\* auto-speak on the queue then holds the reply, with auto-speak off the
\* queue is left as it was.
C24_SpeaksIffAutoSpeakNow ==
  [][\A i \in 1..MaxSubmits :
       Succeeds(i) =>
         /\ autoSpeak => synthQueue' = << messages'[Len(messages')].content >>
         /\ ~autoSpeak => synthQueue' = synthQueue]_vars

\* the text of one block: its lines, one per line
BlockText(section) == join(section, <<"\n">>)

\* the blocks a message calls for, in the order task, catalog, standby
BlocksFor(text) ==
  LET tasks == regexTestAny(TaskPattern, text)
      catalog == regexTestAny(CatalogPattern, text) \/ Mentioned(text) # <<>>
  IN  (IF tasks THEN << BlockText(TaskSection) >> ELSE <<>>)
      \o (IF catalog THEN << BlockText(CatalogSection(Mentioned(text))) >> ELSE <<>>)
      \o (IF ~tasks /\ ~catalog THEN << BlockText(StandbySection) >> ELSE <<>>)

\* C25: the heuristic reply is the task block, then the catalog block, with
\* the standby block exactly when neither intent matched, and a blank line
\* between consecutive blocks.
C25_BlocksSeparatedByBlankLine ==
  HeuristicAnswer(1) =>
    requests[1].resp.body.reply = join(BlocksFor(requests[1].message), <<"\n", "\n">>)

\* C26: the roles in messages alternate user, assistant, user, ... starting
\* with user, and there is one more user Utterance than assistant Utterances
\* exactly while isLoading is true, none more otherwise.
C26_RolesAlternate ==
  /\ \A k \in 1..Len(messages) :
       messages[k].role = IF k % 2 = 1 THEN "user" ELSE "assistant"
  /\ UserCount - AssistantCount = IF isLoading THEN 1 ELSE 0
====
